---- MODULE Spec2Model ----
(***************************************************************************)
(* Smart Scan Face: face matching and the attendance check-in / check-out  *)
(* state machine of main.py, database/models.py and                        *)
(* face_recognition_service.py.                                            *)
(*                                                                         *)
(* Every HTTP handler is an `async def` whose database and file calls are  *)
(* synchronous; uvicorn.run(app) serves them on one event loop.  A handler *)
(* therefore runs without interruption up to its first `await`, which in   *)
(* api_check_attendance is the Discord webhook call made after the         *)
(* attendance row has been committed.  One action of the model is one such *)
(* uninterrupted segment.                                                  *)
(*                                                                         *)
(* Units: time is counted in hours since the epoch (UTC); a face encoding  *)
(* is a vector of integers in tenths, so the tolerance 0.6 is 6, and       *)
(* distances are compared by their squares.  An optional (nullable) value  *)
(* is the empty sequence <<>> for NULL / None and <<v>> for a value v.     *)
(* The captured images under static/captures are written and never read by *)
(* the program; only the path stored in the attendance row is modelled.    *)
(***************************************************************************)
EXTENDS Integers, Sequences, FiniteSets, TLC

VARIABLES
    students,       \* table students: set of rows
    files,          \* face_data/*.pkl: set of [path, encoding]
    logs,           \* table attendance_logs: set of rows
    nextStudentId,  \* next AUTOINCREMENT id of students
    nextLogId,      \* next AUTOINCREMENT id of attendance_logs
    now,            \* the wall clock, hours since the epoch, UTC
    pending,        \* the requests suspended at `await discord_service...`
    last,           \* the status code of the latest HTTP response (0: none yet)
    match,          \* the latest direct call of the matcher: <<>> or <<[unknown, result]>>
    notified        \* what the latest call of send_attendance_log returned, where it
                    \* is observed: <<>> or <<[scan_type, log, sent]>>

vars == <<students, files, logs, nextStudentId, nextLogId, now, pending, last, match,
          notified>>

----------------------------------------------------------------------------
\* Bounds of the model.

MaxRows == 3        \* rows the two AUTOINCREMENT tables insert in a run
MaxPending == 1     \* requests awaiting the webhook while another is handled
TickHours == 18     \* hours the clock advances in one step
MaxTime == 18       \* last hour the clock reaches

\* Program constants.

THAILAND_TZ == 7                    \* timezone(timedelta(hours=7))
FACE_RECOGNITION_TOLERANCE == 6     \* 0.6, in tenths
HoursPerDay == 24                   \* DATE(): one civil day

DEFAULT_CLASS_NAME == "AI"
ClassNames == {DEFAULT_CLASS_NAME, "Math"}
ScanTypes == {"check_in", "check_out"}
\* Face encodings fed to the handlers: 0.6 apart (a match at the tolerance)
\* and 1.2 apart (no match).
Encodings == {<<0>>, <<6>>, <<12>>}
StudentIds == {1, 2}
ExternalIds == {"6501"}

\* An image as the handlers see it: whether it decodes, how many faces the
\* detector finds, and the encoding of the first face (the only one read).
Images ==
    [decodable : {FALSE}, nfaces : {0}, enc : {<<0>>}]
    \cup [decodable : {TRUE}, nfaces : {0}, enc : {<<0>>}]
    \cup [decodable : {TRUE}, nfaces : {1}, enc : Encodings]
    \cup [decodable : {TRUE}, nfaces : {2}, enc : {<<0>>}]

None == <<>>
Some(v) == <<v>>

----------------------------------------------------------------------------
\* database/models.py: the fixed UTC+7 civil clock.

get_thai_time == now + THAILAND_TZ

DATE(t) == t \div HoursPerDay

get_thai_date == DATE(get_thai_time)

\* The UTC offsets, in hours, of the hosts considered: a server on UTC and
\* one on Bangkok time.
HostOffsets == {0, 7}

\* datetime.now() with no tzinfo: the local time of the host.  update_student
\* writes it to updated_at, a column no handler reads and the rows of the
\* model do not carry.
datetime_now(host_offset) == now + host_offset

----------------------------------------------------------------------------
\* face_recognition_service.py

TempPath == <<0, 0>>

\* face_{student_db_id}_{timestamp}.pkl
EncodingPath(student_db_id) == <<student_db_id, 1>>

load_face_encoding(filepath) ==
    LET hit == {f \in files : f.path = filepath}
    IN  IF hit = {} THEN None ELSE Some((CHOOSE f \in hit : TRUE).encoding)

RECURSIVE SumSq(_, _, _)
SumSq(a, b, i) ==
    IF i > Len(a) THEN 0
    ELSE (a[i] - b[i]) * (a[i] - b[i]) + SumSq(a, b, i + 1)

\* face_recognition.face_distance: the Euclidean distance, kept squared.
face_distance(known_encoding, unknown_encoding) ==
    SumSq(known_encoding, unknown_encoding, 1)

\* Variant: a strict comparison with the tolerance.
is_match_strict(distance) ==
    distance < FACE_RECOGNITION_TOLERANCE * FACE_RECOGNITION_TOLERANCE

\* face_recognition.compare_faces: distance <= tolerance.
is_match(distance) ==
    distance <= FACE_RECOGNITION_TOLERANCE * FACE_RECOGNITION_TOLERANCE

compare_faces(known_encoding, unknown_encoding) ==
    LET distance == face_distance(known_encoding, unknown_encoding)
    IN  [is_match |-> is_match(distance), distance |-> distance]

\* Variant: the first match is kept, not the nearest.
better_first_match(cmp, best) == cmp.is_match /\ best = None

\* Variant: the nearest row is kept whether or not it is within the tolerance.
better_ignores_threshold(cmp, best) ==
    best = None \/ cmp.distance < best[1].distance

\* `is_match and distance < best_distance`, best_distance starting at inf:
\* best is <<>> while best_distance is inf, else <<[student, distance]>>.
better(cmp, best) ==
    cmp.is_match /\ (best = None \/ cmp.distance < best[1].distance)

\* Variant: the loop ends at the first row whose encoding is not loaded.
RECURSIVE match_loop_stops_at_unloadable(_, _, _, _)
match_loop_stops_at_unloadable(unknown_encoding, studentList, i, best) ==
    IF i > Len(studentList) THEN best
    ELSE LET student == studentList[i]
             known == load_face_encoding(student.face_encoding_path)
         IN  IF known = None
             THEN best
             ELSE LET cmp == compare_faces(known[1], unknown_encoding)
                  IN  IF better(cmp, best)
                      THEN match_loop_stops_at_unloadable(
                               unknown_encoding, studentList, i + 1,
                               Some([student |-> student,
                                     distance |-> cmp.distance]))
                      ELSE match_loop_stops_at_unloadable(
                               unknown_encoding, studentList, i + 1, best)

RECURSIVE match_loop(_, _, _, _)
match_loop(unknown_encoding, studentList, i, best) ==
    IF i > Len(studentList) THEN best
    ELSE LET student == studentList[i]
             known == load_face_encoding(student.face_encoding_path)
         IN  IF known = None
             THEN match_loop(unknown_encoding, studentList, i + 1, best)
             ELSE LET cmp == compare_faces(known[1], unknown_encoding)
                  IN  IF better(cmp, best)
                      THEN match_loop(unknown_encoding, studentList, i + 1,
                                      Some([student |-> student,
                                            distance |-> cmp.distance]))
                      ELSE match_loop(unknown_encoding, studentList, i + 1, best)

\* Returns <<>> (None) or <<student row>>.
find_matching_student(unknown_encoding, studentList) ==
    LET best == match_loop(unknown_encoding, studentList, 1, None)
    IN  IF best = None THEN None ELSE Some(best[1].student)

----------------------------------------------------------------------------
\* database/models.py: students

\* SELECT * FROM students ORDER BY created_at DESC: every order of the rows
\* that sorts created_at descending (rows of the same second in any order).
RECURSIVE OrdersOf(_)
OrdersOf(rows) ==
    IF rows = {} THEN {<<>>}
    ELSE UNION {{<<r>> \o rest : rest \in OrdersOf(rows \ {r})} :
                   r \in {x \in rows : \A y \in rows : x.created_at >= y.created_at}}

get_all_students == OrdersOf(students)

get_student_by_id(id) == {s \in students : s.id = id}

add_student(face_encoding_path) ==
    students \cup {[id |-> nextStudentId, student_id |-> None,
                    first_name |-> None, last_name |-> None,
                    face_encoding_path |-> face_encoding_path,
                    created_at |-> now]}

\* UPDATE students SET face_encoding_path = ? WHERE id = ?
set_encoding_path(rows, id, path) ==
    {IF s.id = id THEN [s EXCEPT !.face_encoding_path = path] ELSE s : s \in rows}

\* Variant: the row is written again whole (INSERT OR REPLACE), and the
\* columns the request does not carry fall back to the placeholder.
update_student_replaces_row(id, student_id, first_name, last_name) ==
    {IF s.id = id
     THEN [s EXCEPT !.student_id = Some(student_id),
                    !.first_name = Some(first_name),
                    !.last_name = Some(last_name),
                    !.face_encoding_path = TempPath]
     ELSE s : s \in students}

\* models.update_student; the column updated_at, stamped with
\* datetime_now, is not kept in the rows.
update_student(id, student_id, first_name, last_name) ==
    {IF s.id = id
     THEN [s EXCEPT !.student_id = Some(student_id),
                    !.first_name = Some(first_name),
                    !.last_name = Some(last_name)]
     ELSE s : s \in students}

\* Variant: the column student_id is not declared UNIQUE.
unique_violation_never(id, student_id) == FALSE

\* student_id TEXT UNIQUE: the UPDATE would leave two rows with one value.
unique_violation(id, student_id) ==
    \E s \in students : s.id # id /\ s.student_id = Some(student_id)

----------------------------------------------------------------------------
\* database/models.py: attendance_logs

\* capture_{student_id}_{scan_type}_{timestamp}.jpg
CapturePath(student_id, scan_type) == <<student_id, scan_type, now>>

add_attendance_log(student_id, class_name, face_image_path) ==
    logs \cup {[id |-> nextLogId, student_id |-> student_id,
                class_name |-> class_name,
                check_in_time |-> get_thai_time,
                check_out_time |-> None,
                face_image_path |-> face_image_path,
                status |-> "checked_in"]}

\* Variant: the UPDATE stamps check_in_time as well.
update_checkout_time_restamps_entry(log_id, face_image_path) ==
    {IF l.id = log_id
     THEN [l EXCEPT !.check_in_time = get_thai_time,
                    !.check_out_time = Some(get_thai_time),
                    !.status = "checked_out",
                    !.face_image_path = face_image_path]
     ELSE l : l \in logs}

\* Variant: the check-out time is read from the UTC clock.
update_checkout_time_utc(log_id, face_image_path) ==
    {IF l.id = log_id
     THEN [l EXCEPT !.check_out_time = Some(now),
                    !.status = "checked_out",
                    !.face_image_path = face_image_path]
     ELSE l : l \in logs}

\* Variant: the UPDATE has no WHERE clause.
update_checkout_time_every_row(log_id, face_image_path) ==
    {[l EXCEPT !.check_out_time = Some(get_thai_time),
               !.status = "checked_out",
               !.face_image_path = face_image_path] : l \in logs}

\* Variant: the UPDATE stamps the time and leaves status as it was.
update_checkout_time_keeps_status(log_id, face_image_path) ==
    {IF l.id = log_id
     THEN [l EXCEPT !.check_out_time = Some(get_thai_time),
                    !.face_image_path = face_image_path]
     ELSE l : l \in logs}

update_checkout_time(log_id, face_image_path) ==
    {IF l.id = log_id
     THEN [l EXCEPT !.check_out_time = Some(get_thai_time),
                    !.status = "checked_out",
                    !.face_image_path = face_image_path]
     ELSE l : l \in logs}

\* ORDER BY check_in_time DESC LIMIT 1 over the rows `open` the WHERE clause
\* keeps: the rows the SELECT can return (the empty set when there is none).
select_active(open) ==
    {l \in open : \A m \in open : m.check_in_time <= l.check_in_time}

\* Variant: today is taken from the UTC clock.
get_active_checkin_utc_today(student_id, class_name) ==
    select_active({l \in logs : /\ l.student_id = student_id
                                 /\ l.class_name = class_name
                                 /\ DATE(l.check_in_time) = DATE(now)
                                 /\ l.check_out_time = None})

\* Variant: the test `check_out_time IS NULL` is missing.
get_active_checkin_any_status(student_id, class_name) ==
    select_active({l \in logs : /\ l.student_id = student_id
                                 /\ l.class_name = class_name
                                 /\ DATE(l.check_in_time) = get_thai_date})

\* Variant: the test is `check_out_time IS NOT NULL`.
get_active_checkin_closed_rows(student_id, class_name) ==
    select_active({l \in logs : /\ l.student_id = student_id
                                 /\ l.class_name = class_name
                                 /\ DATE(l.check_in_time) = get_thai_date
                                 /\ l.check_out_time # None})

\* Variant: the test `class_name = ?` is missing.
get_active_checkin_any_class(student_id, class_name) ==
    select_active({l \in logs : /\ l.student_id = student_id
                                 /\ DATE(l.check_in_time) = get_thai_date
                                 /\ l.check_out_time = None})

\* Variant: the test `DATE(check_in_time) = today` is missing.
get_active_checkin_any_day(student_id, class_name) ==
    select_active({l \in logs : /\ l.student_id = student_id
                                 /\ l.class_name = class_name
                                 /\ l.check_out_time = None})

\* The rows the SELECT can return: WHERE student_id = ? AND class_name = ?
\* AND DATE(check_in_time) = today AND check_out_time IS NULL
\* ORDER BY check_in_time DESC LIMIT 1 (the empty set when there is none).
get_active_checkin(student_id, class_name) ==
    select_active({l \in logs : /\ l.student_id = student_id
                                 /\ l.class_name = class_name
                                 /\ DATE(l.check_in_time) = get_thai_date
                                 /\ l.check_out_time = None})

----------------------------------------------------------------------------
\* The ids handed out so far stay within the bound of the model.
CanInsert == (nextStudentId - 1) + (nextLogId - 1) < MaxRows

Init ==
    /\ students = {}
    /\ files = {}
    /\ logs = {}
    /\ nextStudentId = 1
    /\ nextLogId = 1
    /\ now = 0
    /\ pending = {}
    /\ last = 0
    /\ match = None
    /\ notified = None

\* The clock advances.
Tick ==
    /\ now + TickHours <= MaxTime
    /\ now' = now + TickHours
    /\ UNCHANGED <<students, files, logs, nextStudentId, nextLogId, pending, last, match, notified>>

\* The status code of each outcome: HTTPException(status_code=...), an
\* uncaught exception (500), or the handler's return (200).
StatusOf(detail) ==
    CASE detail \in {"InvalidInput", "DuplicateFace", "NoOpenEntry", "DuplicateEntry"} -> 400
      [] detail \in {"IdentityNotFound", "NotFound"} -> 404
      [] detail \in {"StoreUnavailable"} -> 500
      [] OTHER -> 200

\* A handler raises before anything is written.
Rejected(detail) ==
    /\ last' = StatusOf(detail)
    /\ UNCHANGED <<students, files, logs, nextStudentId, nextLogId, now, pending, match, notified>>

----------------------------------------------------------------------------
\* main.py: api_register_face / api_register_face_upload (one logic).

\* What find_matching_student(encoding, get_all_students()) can return.
possible_matches(encoding) ==
    {find_matching_student(encoding, studentList) : studentList \in get_all_students}

\* Variant: enrolment does not look for the face among the enrolled.
register_detail_no_duplicate_check(img, existing) ==
    IF ~img.decodable \/ img.nfaces # 1 THEN "InvalidInput"
    ELSE "registered"

\* The branch the handler takes, `existing` being the matcher's result.
register_detail(img, existing) ==
    IF ~img.decodable \/ img.nfaces # 1 THEN "InvalidInput"
    ELSE IF existing # None THEN "DuplicateFace"
    ELSE "registered"

api_register_face(img) ==
    \E existing \in possible_matches(img.enc) :
        LET detail == register_detail(img, existing)
            temp_id == nextStudentId
            encoding_path == EncodingPath(temp_id)
        IN  IF detail # "registered"
            THEN Rejected(detail)
            ELSE /\ CanInsert /\ nextStudentId \in StudentIds
                 /\ students' = set_encoding_path(add_student(TempPath),
                                                  temp_id, encoding_path)
                 /\ files' = files \cup {[path |-> encoding_path,
                                          encoding |-> img.enc]}
                 /\ nextStudentId' = nextStudentId + 1
                 /\ last' = StatusOf(detail)
                 /\ UNCHANGED <<logs, nextLogId, now, pending, match, notified>>

\* save_face_encoding raises (the file cannot be written): the row inserted by
\* add_student(face_encoding_path="temp") has been committed and stays.
api_register_face_save_fails(img) ==
    \E existing \in possible_matches(img.enc) :
        /\ register_detail(img, existing) = "registered"
        /\ CanInsert /\ nextStudentId \in StudentIds
        /\ students' = add_student(TempPath)
        /\ nextStudentId' = nextStudentId + 1
        /\ last' = StatusOf("StoreUnavailable")
        /\ UNCHANGED <<files, logs, nextLogId, now, pending, match, notified>>

----------------------------------------------------------------------------
\* main.py: api_update_student, api_delete_student.

update_detail(id, student_id) ==
    IF get_student_by_id(id) = {} THEN "NotFound"
    ELSE IF unique_violation(id, student_id) THEN "StoreUnavailable"
    ELSE "updated"

api_update_student(id, student_id, first_name, last_name) ==
    LET detail == update_detail(id, student_id)
    IN  IF detail # "updated"
        THEN Rejected(detail)
        ELSE /\ students' = update_student(id, student_id, first_name, last_name)
             /\ last' = StatusOf(detail)
             /\ UNCHANGED <<files, logs, nextStudentId, nextLogId, now, pending, match, notified>>

\* models.delete_student: remove the encoding file, the logs, the row.
delete_student_files(id) ==
    {f \in files : \A s \in get_student_by_id(id) : f.path # s.face_encoding_path}

\* Variant: the DELETE on attendance_logs is missing.
delete_student_logs_kept(id) == logs

delete_student_logs(id) == {l \in logs : l.student_id # id}

delete_student(id) == {s \in students : s.id # id}

api_delete_student(id) ==
    IF get_student_by_id(id) = {}
    THEN Rejected("NotFound")
    ELSE /\ files' = delete_student_files(id)
         /\ logs' = delete_student_logs(id)
         /\ students' = delete_student(id)
         /\ last' = StatusOf("deleted")
         /\ UNCHANGED <<nextStudentId, nextLogId, now, pending, match, notified>>

----------------------------------------------------------------------------
\* main.py: api_check_attendance, up to `await discord_service...`.

\* Variant: a check-in does not look for an open session.
check_detail_no_duplicate_check(img, class_name, scan_type, matched) ==
    IF ~img.decodable \/ img.nfaces = 0 THEN "InvalidInput"
    ELSE IF matched = None THEN "IdentityNotFound"
    ELSE LET active_checkin == get_active_checkin(matched[1].id, class_name)
         IN  IF scan_type = "check_out"
             THEN IF active_checkin = {} THEN "NoOpenEntry" ELSE "check_out"
             ELSE "check_in"

\* The branch the handler takes, `matched` being the matcher's result: one
\* of its HTTPException details, or the transition it commits.
check_detail(img, class_name, scan_type, matched) ==
    IF ~img.decodable \/ img.nfaces = 0 THEN "InvalidInput"
    ELSE IF matched = None THEN "IdentityNotFound"
    ELSE LET active_checkin == get_active_checkin(matched[1].id, class_name)
         IN  IF scan_type = "check_out"
             THEN IF active_checkin = {} THEN "NoOpenEntry" ELSE "check_out"
             ELSE IF active_checkin # {} THEN "DuplicateEntry" ELSE "check_in"

\* Variant: the handler returns after the commit without calling the notifier.
Committed_unnotified(scan_type, sid, class_name, log_id) ==
    /\ last' = StatusOf(scan_type)
    /\ UNCHANGED <<students, files, nextStudentId, now, pending, match, notified>>

\* The transition is committed; the handler awaits the webhook.
Committed(scan_type, sid, class_name, log_id) ==
    /\ Cardinality(pending) < MaxPending
    /\ pending' = pending \cup {[scan_type |-> scan_type, sid |-> sid,
                                 class_name |-> class_name, log |-> log_id]}
    /\ UNCHANGED <<students, files, nextStudentId, now, last, match, notified>>

\* The handler once find_matching_student has returned `matched`.
check_attendance(img, class_name, scan_type, matched) ==
        LET detail == check_detail(img, class_name, scan_type, matched)
        IN  IF detail \notin {"check_in", "check_out"}
            THEN Rejected(detail)
            ELSE LET sid == matched[1].id
                     face_image_path == CapturePath(sid, scan_type)
                 IN  IF detail = "check_out"
                     THEN \E a \in get_active_checkin(sid, class_name) :
                             /\ logs' = update_checkout_time(a.id, face_image_path)
                             /\ UNCHANGED nextLogId
                             /\ Committed(scan_type, sid, class_name, a.id)
                     ELSE /\ CanInsert
                          /\ logs' = add_attendance_log(sid, class_name,
                                                        face_image_path)
                          /\ nextLogId' = nextLogId + 1
                          /\ Committed(scan_type, sid, class_name, nextLogId)

api_check_attendance(img, class_name, scan_type) ==
    \E matched \in possible_matches(img.enc) :
        check_attendance(img, class_name, scan_type, matched)

\* What the webhook call can end in: status 204, another status, or an
\* exception raised inside the try block.
WebhookOutcomes == {"204", "error", "exception"}

\* discord_service.send_attendance_log: True on status 204, False on any other
\* status and on an exception, which it catches.
send_attendance_log(outcome) == outcome = "204"

\* Variant: the handler fails the request when the notification was not sent.
check_response_requires_sent(p, sent) ==
    IF sent THEN StatusOf(p.scan_type) ELSE StatusOf("StoreUnavailable")

\* The handler after the await: it drops the value send_attendance_log
\* returned and returns {"success": True, ...}.
check_response(p, sent) == StatusOf(p.scan_type)

\* send_attendance_log returns and the handler of request p returns.
send_attendance_log_returns(p, outcome) ==
    /\ p \in pending
    /\ pending' = pending \ {p}
    /\ last' = check_response(p, send_attendance_log(outcome))
    /\ UNCHANGED <<students, files, logs, nextStudentId, nextLogId, now, match>>

----------------------------------------------------------------------------

RegisterFace == \E img \in Images : api_register_face(img)

RegisterFaceSaveFails == \E img \in Images : api_register_face_save_fails(img)

UpdateStudent ==
    \E id \in StudentIds, student_id \in ExternalIds :
        api_update_student(id, student_id, "Ann", "Lee")

DeleteStudent == \E id \in StudentIds : api_delete_student(id)

CheckAttendance ==
    \E img \in Images, class_name \in ClassNames, scan_type \in ScanTypes :
        api_check_attendance(img, class_name, scan_type)

NotifyReturns ==
    \E p \in pending, outcome \in WebhookOutcomes :
        send_attendance_log_returns(p, outcome) /\ UNCHANGED notified

Next ==
    \/ Tick
    \/ RegisterFace
    \/ RegisterFaceSaveFails
    \/ UpdateStudent
    \/ DeleteStudent
    \/ CheckAttendance
    \/ NotifyReturns

Spec == Init /\ [][Next]_vars

----------------------------------------------------------------------------
\* The matcher as a pure function: every enrolled set of up to MaxEnrolled
\* rows, each with a stored encoding or with none that loads, and every
\* unknown encoding.  All rows carry one created_at, so get_all_students
\* yields them in every order.

MaxEnrolled == 3

EnrolledIds == 1 .. MaxEnrolled

\* 0.3, 0.6 (the tolerance itself) and more than 0.6 apart; two pairs tie.
MatcherEncodings == {<<0, 0>>, <<3, 0>>, <<6, 0>>, <<0, 6>>, <<6, 3>>}

EnrolledRow(id, path) ==
    [id |-> id, student_id |-> None, first_name |-> None, last_name |-> None,
     face_encoding_path |-> path, created_at |-> 0]

InitMatcher ==
    /\ \E kind \in [EnrolledIds -> {"absent", "unloadable", "stored"}],
          enc \in [EnrolledIds -> MatcherEncodings] :
          /\ students = {EnrolledRow(i, IF kind[i] = "stored" THEN EncodingPath(i)
                                        ELSE TempPath) :
                            i \in {j \in EnrolledIds : kind[j] # "absent"}}
          /\ files = {[path |-> EncodingPath(i), encoding |-> enc[i]] :
                         i \in {j \in EnrolledIds : kind[j] = "stored"}}
    /\ logs = {}
    /\ nextStudentId = MaxEnrolled + 1
    /\ nextLogId = 1
    /\ now = 0
    /\ pending = {}
    /\ last = 0
    /\ match = None
    /\ notified = None

MatchCall ==
    \E unknown_encoding \in MatcherEncodings, studentList \in get_all_students :
        /\ match' = Some([unknown |-> unknown_encoding,
                          result |-> find_matching_student(unknown_encoding,
                                                           studentList)])
        /\ UNCHANGED <<students, files, logs, nextStudentId, nextLogId, now,
                       pending, last, notified>>

NextMatcher == MatchCall

SpecMatcher == InitMatcher /\ [][NextMatcher]_vars

----------------------------------------------------------------------------
\* Vocabulary of the properties.

CivilDay(t) == t \div HoursPerDay

Today == CivilDay(now + THAILAND_TZ)

IsOpen(l) == l.check_out_time = None

\* The sessions of (identity, class, civil day) among the rows L.
SessionsOn(L, sid, class_name, day) ==
    {l \in L : /\ l.student_id = sid
               /\ l.class_name = class_name
               /\ CivilDay(l.check_in_time) = day}

OpenOn(L, sid, class_name, day) ==
    {l \in SessionsOn(L, sid, class_name, day) : IsOpen(l)}

\* The images from which the handlers obtain the encoding u.
FaceImagesOf(u) == {img \in Images : img.decodable /\ img.nfaces >= 1 /\ img.enc = u}

\* The row s has a stored encoding at most the tolerance away from u.
WithinTolerance(s, u) ==
    /\ load_face_encoding(s.face_encoding_path) # None
    /\ face_distance(load_face_encoding(s.face_encoding_path)[1], u)
          <= FACE_RECOGNITION_TOLERANCE * FACE_RECOGNITION_TOLERANCE

DistanceTo(s, u) == face_distance(load_face_encoding(s.face_encoding_path)[1], u)

\* The step adds exactly one session: open, of this key, entered now.
AddsOneOpenSession(sid, class_name) ==
    \E l \in logs' :
        /\ l \notin logs
        /\ logs' = logs \cup {l}
        /\ l.student_id = sid /\ l.class_name = class_name
        /\ l.check_in_time = now + THAILAND_TZ
        /\ l.check_out_time = None /\ l.status = "checked_in"

\* The step is rejected with status code `code` and writes nothing.
RejectedWith(code) ==
    /\ last' = code
    /\ logs' = logs /\ students' = students /\ files' = files
    /\ pending' = pending

----------------------------------------------------------------------------
\* C1: in every reachable state, each (identity, class, civil day) has at
\* most one open attendance session.
C1_AtMostOneOpen ==
    \A l1, l2 \in logs :
        ( /\ l1.student_id = l2.student_id
          /\ l1.class_name = l2.class_name
          /\ CivilDay(l1.check_in_time) = CivilDay(l2.check_in_time)
          /\ IsOpen(l1) /\ IsOpen(l2) ) => l1 = l2

\* A key that was entered, exited and entered again on one day: two sessions,
\* one of them open.
C1_Witness ==
    \E l1, l2 \in logs :
        /\ l1.student_id = l2.student_id /\ l1.class_name = l2.class_name
        /\ CivilDay(l1.check_in_time) = CivilDay(l2.check_in_time)
        /\ IsOpen(l1) /\ ~IsOpen(l2)

\* C2: an enter request handled while another enter request of the same
\* (identity, class, day) is still in flight, its session open, is rejected
\* (DuplicateEntry) and writes nothing: of two simultaneous enters exactly one
\* creates a session.
C2_ConcurrentEnter ==
    \A u \in Encodings : \A matched \in possible_matches(u) :
        \A img \in FaceImagesOf(u), class_name \in ClassNames :
           ( /\ matched # None
             /\ \E p \in pending :
                   /\ p.scan_type = "check_in"
                   /\ p.sid = matched[1].id /\ p.class_name = class_name
                   /\ \E l \in OpenOn(logs, p.sid, class_name, Today) : l.id = p.log )
           => /\ check_detail(img, class_name, "check_in", matched) = "DuplicateEntry"
              /\ ~ ENABLED ( /\ check_attendance(img, class_name, "check_in", matched)
                             /\ ~ RejectedWith(400) )

\* An enter is in flight, its session open today, and the latest response is
\* a rejection with code 400.
C2_Witness ==
    /\ last = 400
    /\ \E p \in pending :
          /\ p.scan_type = "check_in"
          /\ \E l \in OpenOn(logs, p.sid, p.class_name, Today) : l.id = p.log

\* C3 as stated: an (identity, class, day) never has a second session, a
\* checked-out one being final for the key.
C3_OneSessionPerKeyDay ==
    \A l1, l2 \in logs :
        ( /\ l1.student_id = l2.student_id
          /\ l1.class_name = l2.class_name
          /\ CivilDay(l1.check_in_time) = CivilDay(l2.check_in_time) ) => l1 = l2

\* C3 as amended: after the sessions of an (identity, class) of today have
\* all been checked out, a further enter request is accepted and adds a
\* second, open session, leaving the checked-out ones as they are.
C3_EnterAfterExit ==
    \A u \in Encodings : \A matched \in possible_matches(u) :
        \A img \in FaceImagesOf(u), class_name \in ClassNames :
           ( /\ matched # None
             /\ SessionsOn(logs, matched[1].id, class_name, Today) # {}
             /\ OpenOn(logs, matched[1].id, class_name, Today) = {} )
           => /\ check_detail(img, class_name, "check_in", matched) = "check_in"
              /\ ~ ENABLED ( /\ check_attendance(img, class_name, "check_in", matched)
                             /\ ~ AddsOneOpenSession(matched[1].id, class_name) )

\* A key with a checked-out session and a later session of the same day.
C3_Witness ==
    \E l1, l2 \in logs :
        /\ l1.student_id = l2.student_id /\ l1.class_name = l2.class_name
        /\ CivilDay(l1.check_in_time) = CivilDay(l2.check_in_time)
        /\ l1.status = "checked_out" /\ l2.id > l1.id

\* The step stamps the one session of the key of today, which was open,
\* and leaves exactly that session for the key, checked out now.
StampsTheOnlySession(sid, class_name) ==
    \E l \in logs, x \in logs' :
        /\ SessionsOn(logs', sid, class_name, Today) = {x}
        /\ logs' = (logs \ {l}) \cup {x}
        /\ x.id = l.id /\ x.check_in_time = l.check_in_time
        /\ x.status = "checked_out"
        /\ x.check_out_time = Some(now + THAILAND_TZ)

\* C4: for a key with no session today an enter is accepted and adds exactly
\* one open session; an exit that follows is accepted and stamps it, leaving
\* exactly one session of the key today, in status checked_out with an exit
\* time; each of the two commits and awaits the notifier.
C4_EnterThenExit ==
    \A u \in Encodings : \A matched \in possible_matches(u) :
        \A img \in FaceImagesOf(u), class_name \in ClassNames :
           matched # None =>
           /\ SessionsOn(logs, matched[1].id, class_name, Today) = {}
              => /\ check_detail(img, class_name, "check_in", matched) = "check_in"
                 /\ ~ ENABLED ( /\ check_attendance(img, class_name, "check_in", matched)
                                /\ ~ ( /\ AddsOneOpenSession(matched[1].id, class_name)
                                       /\ pending' # pending ) )
           /\ (\E l \in logs :
                  /\ SessionsOn(logs, matched[1].id, class_name, Today) = {l}
                  /\ IsOpen(l))
              => /\ check_detail(img, class_name, "check_out", matched) = "check_out"
                 /\ ~ ENABLED ( /\ check_attendance(img, class_name, "check_out", matched)
                                /\ ~ ( /\ StampsTheOnlySession(matched[1].id, class_name)
                                       /\ pending' # pending ) )

\* Both requests have been answered: the key's only session of today is
\* checked out.
C4_Witness ==
    /\ last = 200 /\ pending = {}
    /\ \E l \in logs :
          /\ SessionsOn(logs, l.student_id, l.class_name, Today) = {l}
          /\ l.status = "checked_out" /\ l.check_out_time # None

\* C5: an enter request for an (identity, class) with an open session today
\* is rejected with DuplicateEntry and leaves the sessions as they were.
C5_DuplicateEntry ==
    \A u \in Encodings : \A matched \in possible_matches(u) :
        \A img \in FaceImagesOf(u), class_name \in ClassNames :
           ( /\ matched # None
             /\ OpenOn(logs, matched[1].id, class_name, Today) # {} )
           => /\ check_detail(img, class_name, "check_in", matched) = "DuplicateEntry"
              /\ ~ ENABLED ( /\ check_attendance(img, class_name, "check_in", matched)
                             /\ ~ RejectedWith(400) )

\* Nothing is in flight, one session exists, open today, and the latest
\* response is a rejection with code 400.
C5_Witness ==
    /\ last = 400 /\ pending = {}
    /\ \E l \in logs : logs = {l} /\ IsOpen(l) /\ CivilDay(l.check_in_time) = Today

\* C6: an exit request for an (identity, class) with no open session today
\* (none at all, or only checked-out ones) is rejected with NoOpenEntry and
\* leaves the sessions as they were.
C6_NoOpenEntry ==
    \A u \in Encodings : \A matched \in possible_matches(u) :
        \A img \in FaceImagesOf(u), class_name \in ClassNames :
           ( /\ matched # None
             /\ OpenOn(logs, matched[1].id, class_name, Today) = {} )
           => /\ check_detail(img, class_name, "check_out", matched) = "NoOpenEntry"
              /\ ~ ENABLED ( /\ check_attendance(img, class_name, "check_out", matched)
                             /\ ~ RejectedWith(400) )

\* A key whose only session of today is checked out, nothing in flight, and
\* the latest response a rejection with code 400.
C6_Witness ==
    /\ last = 400 /\ pending = {}
    /\ \E l \in logs :
          /\ logs = {l} /\ ~IsOpen(l) /\ CivilDay(l.check_in_time) = Today

\* C7: an enter request for an (identity, class) that has a session of an
\* earlier civil day, still open, and none today is accepted and adds an
\* independent session, the earlier one staying as it is.
C7_EnterNextDay ==
    \A u \in Encodings : \A matched \in possible_matches(u) :
        \A img \in FaceImagesOf(u), class_name \in ClassNames :
           ( /\ matched # None
             /\ SessionsOn(logs, matched[1].id, class_name, Today) = {}
             /\ \E l \in logs :
                   /\ l.student_id = matched[1].id /\ l.class_name = class_name
                   /\ CivilDay(l.check_in_time) < Today /\ IsOpen(l) )
           => /\ check_detail(img, class_name, "check_in", matched) = "check_in"
              /\ ~ ENABLED ( /\ check_attendance(img, class_name, "check_in", matched)
                             /\ ~ AddsOneOpenSession(matched[1].id, class_name) )

\* Two sessions of one (identity, class) on two civil days, the earlier one
\* never checked out.
C7_Witness ==
    \E l1, l2 \in logs :
        /\ l1.student_id = l2.student_id /\ l1.class_name = l2.class_name
        /\ CivilDay(l1.check_in_time) < CivilDay(l2.check_in_time)
        /\ IsOpen(l1)

\* C8: when the matcher returns a row, the row is enrolled, its distance to
\* the unknown encoding is at most the tolerance, and no enrolled row within
\* the tolerance is nearer.
C8_BestMatch ==
    (match # None /\ match[1].result # None) =>
        LET s == match[1].result[1]
            u == match[1].unknown
        IN  /\ s \in students
            /\ WithinTolerance(s, u)
            /\ \A t \in students :
                  WithinTolerance(t, u) => DistanceTo(s, u) <= DistanceTo(t, u)

\* The matcher returned a row although another row within the tolerance is
\* farther away.
C8_Witness ==
    /\ match # None /\ match[1].result # None
    /\ \E t \in students :
          /\ WithinTolerance(t, match[1].unknown)
          /\ DistanceTo(t, match[1].unknown)
                > DistanceTo(match[1].result[1], match[1].unknown)

\* C9: the matcher returns none exactly when no enrolled row with a loadable
\* encoding is at most the tolerance away from the unknown encoding.
C9_NoneIffNoCandidate ==
    match # None =>
        ( match[1].result = None
          <=> ~ \E t \in students : WithinTolerance(t, match[1].unknown) )

\* The matcher returned none over rows of which one has a loadable encoding
\* and one has not.
C9_Witness ==
    /\ match # None /\ match[1].result = None
    /\ \E t \in students : load_face_encoding(t.face_encoding_path) # None
    /\ \E t \in students : load_face_encoding(t.face_encoding_path) = None

\* The sessions the step changes all belong to one enrolled row whose
\* stored encoding is within the tolerance of u.
ChangesOnlySessionsOfAMatch(u) ==
    \E s \in students :
        /\ WithinTolerance(s, u)
        /\ \A l \in (logs' \ logs) \cup (logs \ logs') : l.student_id = s.id

\* C10: a scan at most the tolerance away from no enrolled encoding is
\* rejected with IdentityNotFound (404) and writes nothing; and a step of the
\* handler that changes the sessions changes only sessions of a row whose
\* stored encoding is within the tolerance of the scan.
C10_IdentityNotFound ==
    \A u \in Encodings : \A matched \in possible_matches(u) :
        \A img \in FaceImagesOf(u), class_name \in ClassNames, scan_type \in ScanTypes :
           /\ (\A s \in students : ~WithinTolerance(s, img.enc))
              => /\ check_detail(img, class_name, scan_type, matched)
                       = "IdentityNotFound"
                 /\ ~ ENABLED ( /\ check_attendance(img, class_name, scan_type, matched)
                                /\ ~ RejectedWith(404) )
           /\ ~ ENABLED ( /\ check_attendance(img, class_name, scan_type, matched)
                          /\ logs' # logs
                          /\ ~ ChangesOnlySessionsOfAMatch(img.enc) )

\* Sessions exist, a row is enrolled, some scan matches nobody, and the
\* latest response has code 404.
C10_Witness ==
    /\ last = 404 /\ logs # {}
    /\ \E s \in students : load_face_encoding(s.face_encoding_path) # None
    /\ \E u \in Encodings : \A s \in students : ~WithinTolerance(s, u)

----------------------------------------------------------------------------
\* The images in which the detector finds no face or more than one.
NonSingleFaceImages == {img \in Images : img.decodable /\ img.nfaces # 1}

\* C11 as stated: a request whose image shows no face or more than one face
\* is rejected with InvalidInput (400) by api_register_face and by
\* api_check_attendance alike, and changes no student row, no encoding file
\* and no attendance session.
C11_InvalidInput ==
    \A img \in NonSingleFaceImages : \A matched \in possible_matches(img.enc) :
        /\ register_detail(img, matched) = "InvalidInput"
        /\ ~ ENABLED (api_register_face(img) /\ ~ RejectedWith(400))
        /\ \A class_name \in ClassNames, scan_type \in ScanTypes :
              /\ check_detail(img, class_name, scan_type, matched) = "InvalidInput"
              /\ ~ ENABLED ( /\ check_attendance(img, class_name, scan_type, matched)
                             /\ ~ RejectedWith(400) )

----------------------------------------------------------------------------
\* The attendance machine with the notifier observed: the value returned by
\* each call of send_attendance_log is kept in `notified`.

NotifyObserved ==
    \E p \in pending, outcome \in WebhookOutcomes :
        /\ send_attendance_log_returns(p, outcome)
        /\ notified' = Some([scan_type |-> p.scan_type, log |-> p.log,
                             sent |-> send_attendance_log(outcome)])

NextNotify ==
    \/ Tick
    \/ RegisterFace
    \/ DeleteStudent
    \/ CheckAttendance
    \/ NotifyObserved

SpecNotify == Init /\ [][NextNotify]_vars

\* The step answers the request with success and leaves the store as it is.
AnswersSuccessKeepingStore ==
    /\ last' = 200
    /\ logs' = logs /\ students' = students /\ files' = files

\* C12: whenever a request awaits the notifier, its transition committed, and
\* the webhook call ends in an error status or an exception, the request is
\* answered with success (200) and the sessions, with the transition, stay
\* as committed.
C12_NotifierFailure ==
    \A p \in pending, outcome \in WebhookOutcomes :
        ~ send_attendance_log(outcome) =>
            /\ check_response(p, send_attendance_log(outcome)) = 200
            /\ ENABLED (send_attendance_log_returns(p, outcome) /\ UNCHANGED notified)
            /\ ~ ENABLED ( /\ send_attendance_log_returns(p, outcome)
                           /\ UNCHANGED notified
                           /\ ~ AnswersSuccessKeepingStore )

\* The notifier failed for a check-out; the request was answered 200 and the
\* session it stamped is still checked out.
C12_Witness ==
    /\ notified # None /\ ~ notified[1].sent
    /\ notified[1].scan_type = "check_out"
    /\ last = 200
    /\ \E l \in logs :
          /\ l.id = notified[1].log
          /\ l.status = "checked_out" /\ l.check_out_time # None

----------------------------------------------------------------------------
\* The machine as the administration desk drives it: two external student
\* ids to hand out, attendance taken for the default class of the request.

AdminExternalIds == {"6501", "6502"}

UpdateStudentAny ==
    \E id \in StudentIds, student_id \in AdminExternalIds :
        api_update_student(id, student_id, "Ann", "Lee")

CheckAttendanceDefault ==
    \E img \in Images, scan_type \in ScanTypes :
        api_check_attendance(img, DEFAULT_CLASS_NAME, scan_type)

NextAdmin ==
    \/ Tick
    \/ RegisterFace
    \/ RegisterFaceSaveFails
    \/ UpdateStudentAny
    \/ DeleteStudent
    \/ CheckAttendanceDefault
    \/ NotifyReturns

SpecAdmin == Init /\ [][NextAdmin]_vars

\* The single-face images from which api_register_face obtains the encoding u.
RegisterImagesOf(u) ==
    {img \in Images : img.decodable /\ img.nfaces = 1 /\ img.enc = u}

\* The step adds exactly one student row, its name and external id null, and
\* stores the encoding u in the file the row references; no session changes.
AddsOneIdentity(u) ==
    \E s \in students' :
        /\ s \notin students
        /\ students' = students \cup {s}
        /\ s.student_id = None /\ s.first_name = None /\ s.last_name = None
        /\ files' = files \cup {[path |-> s.face_encoding_path, encoding |-> u]}
        /\ [path |-> s.face_encoding_path, encoding |-> u] \notin files
        /\ logs' = logs

\* C13: an enrolment whose encoding is within the tolerance of an enrolled
\* row's stored encoding is rejected with DuplicateFace (400) and adds no
\* row and no encoding file; one within the tolerance of none adds exactly
\* one row, its name and external id null, with its encoding stored.
C13_DuplicateFace ==
    \A u \in Encodings : \A existing \in possible_matches(u) :
        \A img \in RegisterImagesOf(u) :
           /\ (\E s \in students : WithinTolerance(s, u))
              => /\ register_detail(img, existing) = "DuplicateFace"
                 /\ ~ ENABLED (api_register_face(img) /\ ~ RejectedWith(400))
           /\ (\A s \in students : ~ WithinTolerance(s, u))
              => /\ register_detail(img, existing) = "registered"
                 /\ ~ ENABLED (api_register_face(img) /\ ~ AddsOneIdentity(u))

\* Two rows are enrolled, each with its encoding stored and its name null,
\* some encoding is within the tolerance of one of them without being equal
\* to it, and the latest answer is a rejection with code 400.
C13_Witness ==
    /\ last = 400 /\ logs = {}
    /\ \E s, t \in students :
          /\ s # t
          /\ s.first_name = None /\ t.first_name = None
          /\ load_face_encoding(s.face_encoding_path) # None
          /\ load_face_encoding(t.face_encoding_path) # None
          /\ \E u \in Encodings :
                /\ WithinTolerance(s, u)
                /\ load_face_encoding(s.face_encoding_path) # Some(u)

----------------------------------------------------------------------------
\* The step removes the row `id`, the sessions that reference it and the
\* encoding file it references, and nothing else.
DeletesOnly(id) ==
    /\ \A s \in students' : s.id # id
    /\ \A l \in logs' : l.student_id # id
    /\ \A s \in students : s.id = id =>
          \A f \in files' : f.path # s.face_encoding_path
    /\ \A s \in students : s.id # id =>
          /\ s \in students'
          /\ \A f \in files : f.path = s.face_encoding_path => f \in files'
    /\ \A l \in logs : l.student_id # id => l \in logs'
    /\ students' \subseteq students /\ logs' \subseteq logs /\ files' \subseteq files

\* C14: deleting an enrolled row removes the row, every attendance session
\* that references it and its stored encoding; every other row, with its
\* encoding and its sessions, stays as it was.
C14_DeleteCascade ==
    \A id \in StudentIds :
        get_student_by_id(id) # {} =>
            /\ ENABLED api_delete_student(id)
            /\ ~ ENABLED (api_delete_student(id) /\ ~ DeletesOnly(id))

\* The first of two rows was deleted with its session: the second row and
\* its encoding are left, the one session ever inserted is gone, and the
\* latest answer is a success.
C14_Witness ==
    /\ last = 200 /\ nextStudentId = 3 /\ nextLogId = 2 /\ logs = {}
    /\ \E s \in students :
          /\ students = {s} /\ s.id = 2
          /\ load_face_encoding(s.face_encoding_path) # None

----------------------------------------------------------------------------
\* The step leaves the rows, the encoding files and the sessions as they were.
StoreUnchanged ==
    students' = students /\ files' = files /\ logs' = logs

\* C15 as stated: a request in which a persistence step fails (the encoding
\* file cannot be written during an enrolment, or an UPDATE violates the
\* UNIQUE constraint) leaves the store exactly as it was before the request.
C15_NothingPartiallyCommitted ==
    /\ \A img \in Images :
          ~ ENABLED (api_register_face_save_fails(img) /\ ~ StoreUnchanged)
    /\ \A id \in StudentIds, student_id \in ExternalIds :
          update_detail(id, student_id) = "StoreUnavailable"
          => ~ ENABLED ( /\ api_update_student(id, student_id, "Ann", "Lee")
                         /\ ~ StoreUnchanged )

\* C16 as stated: in every reachable state every student row references an
\* encoding file that is stored; no row carries the placeholder path.
C16_EveryRowHasEncoding ==
    \A s \in students :
        /\ s.face_encoding_path # TempPath
        /\ load_face_encoding(s.face_encoding_path) # None

----------------------------------------------------------------------------
\* C17: no two student rows carry the same non-null external student id; and
\* an update that would give a row the external id another row holds fails
\* (500) and leaves every row as it was.
C17_UniqueExternalId ==
    /\ \A s, t \in students :
          (s.student_id # None /\ s.student_id = t.student_id) => s = t
    /\ \A id \in StudentIds, student_id \in AdminExternalIds :
          ( /\ get_student_by_id(id) # {}
            /\ \E t \in students : t.id # id /\ t.student_id = Some(student_id) )
          => /\ update_detail(id, student_id) = "StoreUnavailable"
             /\ ~ ENABLED ( /\ api_update_student(id, student_id, "Ann", "Lee")
                            /\ ~ (last' = 500 /\ StoreUnchanged) )

\* The only two rows ever inserted carry two different external ids, and the
\* latest answer is a failure with code 500: an update asked for the id of
\* the other row.
C17_Witness ==
    /\ last = 500 /\ nextStudentId = 3
    /\ \E s, t \in students :
          /\ s.id = 1 /\ t.id = 2
          /\ s.student_id # None /\ t.student_id # None
          /\ s.student_id # t.student_id

----------------------------------------------------------------------------
\* The attendance machine on a finer clock: several scans within one civil
\* day, and the day after.

ShortTickHours == 9     \* hours the finer clock advances in one step

ShortTick ==
    /\ now + ShortTickHours <= MaxTime
    /\ now' = now + ShortTickHours
    /\ UNCHANGED <<students, files, logs, nextStudentId, nextLogId, pending, last,
                   match, notified>>

NextClock ==
    \/ ShortTick
    \/ RegisterFace
    \/ DeleteStudent
    \/ CheckAttendance
    \/ NotifyReturns

SpecClock == Init /\ [][NextClock]_vars

\* C18: every session in status checked_out has a check-out time, and it is
\* not earlier than its check-in time.
C18_ExitNotBeforeEntry ==
    \A l \in logs :
        l.status = "checked_out" =>
            /\ l.check_out_time # None
            /\ l.check_out_time[1] >= l.check_in_time

\* A session checked out later on the day it was entered.
C18_Witness ==
    \E l \in logs :
        /\ l.status = "checked_out" /\ l.check_out_time # None
        /\ l.check_out_time[1] > l.check_in_time
        /\ CivilDay(l.check_out_time[1]) = CivilDay(l.check_in_time)

----------------------------------------------------------------------------
\* C19 as stated: every timestamp the program records is the UTC+7 civil
\* time of the moment it is written, whatever the zone of the host: the
\* created_at of an enrolled row, the updated_at an update writes, the
\* check-in time and the check-out time of a session.
C19_FixedCivilClock ==
    /\ \A img \in Images :
          ~ ENABLED ( /\ api_register_face(img)
                      /\ \E s \in students' \ students :
                            s.created_at # now + THAILAND_TZ )
    /\ \A host_offset \in HostOffsets :
          datetime_now(host_offset) = now + THAILAND_TZ
    /\ \A img \in Images, class_name \in ClassNames, scan_type \in ScanTypes :
          ~ ENABLED ( /\ api_check_attendance(img, class_name, scan_type)
                      /\ \E l \in logs' \ logs :
                            \/ l.check_in_time \notin
                                  {m.check_in_time : m \in logs} \cup {now + THAILAND_TZ}
                            \/ l.check_out_time \notin {None, Some(now + THAILAND_TZ)} )

----------------------------------------------------------------------------
\* The step stamps one session and leaves every other as it was: the one
\* stamped is an open session of the key of today, none of the key's open
\* sessions of today was entered later or created later, and it becomes
\* checked out now, its key and check-in time kept.
StampsTheLatestOpen(sid, class_name) ==
    \E l \in OpenOn(logs, sid, class_name, Today) :
        /\ \A m \in OpenOn(logs, sid, class_name, Today) :
              m.check_in_time <= l.check_in_time /\ m.id <= l.id
        /\ logs' = (logs \ {l}) \cup
                      {[l EXCEPT !.check_out_time = Some(now + THAILAND_TZ),
                                 !.status = "checked_out",
                                 !.face_image_path = CapturePath(sid, "check_out")]}

\* C20: an exit request for an (identity, class) with an open session today
\* is accepted and stamps exactly one session, the latest open session of
\* the key of today; the sessions of other days, other classes and other
\* identities, open or not, stay as they were.
C20_ExitStampsLatestOpen ==
    \A u \in Encodings : \A matched \in possible_matches(u) :
        \A img \in FaceImagesOf(u), class_name \in ClassNames :
           ( /\ matched # None
             /\ OpenOn(logs, matched[1].id, class_name, Today) # {} )
           => /\ check_detail(img, class_name, "check_out", matched) = "check_out"
              /\ ~ ENABLED ( /\ check_attendance(img, class_name, "check_out", matched)
                             /\ ~ StampsTheLatestOpen(matched[1].id, class_name) )

\* A key has a session of an earlier day, still open, and a session of today
\* that has been checked out.
C20_Witness ==
    \E l1, l2 \in logs :
        /\ l1.student_id = l2.student_id /\ l1.class_name = l2.class_name
        /\ CivilDay(l1.check_in_time) < CivilDay(l2.check_in_time)
        /\ IsOpen(l1) /\ l1.status = "checked_in"
        /\ l2.status = "checked_out" /\ CivilDay(l2.check_in_time) = Today

----------------------------------------------------------------------------
\* What one step may do to the sessions: a session that stays keeps its key
\* and its check-in time, stays as it is once checked out, and otherwise
\* stays or becomes checked out with a check-out time; a session that goes
\* goes with the student row it references; a session that comes is open, in
\* status checked_in.
LifecycleStep ==
    /\ \A l \in logs :
          \/ \E x \in logs' :
                /\ x.id = l.id
                /\ x.student_id = l.student_id /\ x.class_name = l.class_name
                /\ x.check_in_time = l.check_in_time
                /\ l.status = "checked_out" => x = l
                /\ l.status = "checked_in" =>
                      \/ x = l
                      \/ x.status = "checked_out" /\ x.check_out_time # None
          \/ /\ \A x \in logs' : x.id # l.id
             /\ \E s \in students : s.id = l.student_id
             /\ \A s \in students' : s.id # l.student_id
    /\ \A x \in logs' :
          (\A l \in logs : l.id # x.id) =>
              x.status = "checked_in" /\ x.check_out_time = None

\* C21: no step of the machine takes a session back from checked_out to
\* checked_in, changes its check-in time or changes it once it is checked
\* out; a session is created in status checked_in, and is removed only in
\* the step that deletes the student row it references.
C21_MonotoneLifecycle == [][LifecycleStep]_vars

\* A session has been checked out later on its day, a further session of
\* the key has been entered after it, and every request has been answered.
C21_Witness ==
    /\ pending = {} /\ last = 200
    /\ \E l1, l2 \in logs :
          /\ l1.student_id = l2.student_id /\ l1.class_name = l2.class_name
          /\ l1.status = "checked_out" /\ l1.check_out_time # None
          /\ l1.check_out_time[1] > l1.check_in_time
          /\ l2.id > l1.id /\ l2.status = "checked_in"

----------------------------------------------------------------------------
\* The step hands exactly one call to the notifier, for the transition it
\* has written: the call names the session the step wrote, and that session
\* is in the store as the transition leaves it.
NotifiesTheTransition(scan_type) ==
    \E p \in pending' :
        /\ p \notin pending
        /\ pending' = pending \cup {p}
        /\ p.scan_type = scan_type
        /\ \E x \in logs' :
              /\ x \notin logs
              /\ x.id = p.log /\ x.student_id = p.sid /\ x.class_name = p.class_name
              /\ x.status = IF scan_type = "check_out" THEN "checked_out"
                            ELSE "checked_in"

\* C22: a request that is rejected (InvalidInput, IdentityNotFound,
\* DuplicateEntry, NoOpenEntry) hands nothing to the notifier; a request that
\* commits a transition hands it exactly one call, for that transition, with
\* the session already written; every call awaited is for a session id the
\* store has handed out, and the return of the notifier ends exactly the one
\* call it answers.
C22_NotifyAfterCommit ==
    /\ \A p \in pending : p.log < nextLogId
    /\ \A p \in pending, outcome \in WebhookOutcomes :
          ~ ENABLED ( /\ send_attendance_log_returns(p, outcome)
                      /\ UNCHANGED notified
                      /\ pending' # pending \ {p} )
    /\ \A img \in Images : \A matched \in possible_matches(img.enc) :
          \A class_name \in ClassNames, scan_type \in ScanTypes :
             LET detail == check_detail(img, class_name, scan_type, matched)
             IN  /\ detail \notin {"check_in", "check_out"}
                    => ~ ENABLED ( /\ check_attendance(img, class_name, scan_type, matched)
                                   /\ pending' # pending )
                 /\ detail \in {"check_in", "check_out"}
                    => ~ ENABLED ( /\ check_attendance(img, class_name, scan_type, matched)
                                   /\ ~ NotifiesTheTransition(scan_type) )

\* The one transition committed so far, a check-in, has had its notification
\* attempt; a later request was rejected with code 404 and nothing awaits
\* the notifier.
C22_Witness ==
    /\ notified # None /\ notified[1].scan_type = "check_in"
    /\ nextLogId = 2 /\ logs # {}
    /\ pending = {} /\ last = 404

----------------------------------------------------------------------------
\* The file the row names is in the store of encodings.
HasStoredEncoding(s) == \E f \in files : f.path = s.face_encoding_path

\* C23: a row whose encoding file is missing is never the row the matcher
\* returns, and for every unknown encoding and every order of the enrolled
\* rows the matcher returns what it returns over the same list with the rows
\* without a stored encoding left out.
C23_UnloadableSkipped ==
    /\ (match # None /\ match[1].result # None)
          => HasStoredEncoding(match[1].result[1])
    /\ \A unknown_encoding \in MatcherEncodings, studentList \in get_all_students :
          find_matching_student(unknown_encoding, studentList)
             = find_matching_student(unknown_encoding,
                                     SelectSeq(studentList, HasStoredEncoding))

\* The matcher returned a row although a row enrolled before it has no
\* stored encoding, and a second row with a stored encoding is within the
\* tolerance too.
C23_Witness ==
    /\ match # None /\ match[1].result # None
    /\ \E t \in students :
          ~ HasStoredEncoding(t) /\ t.id < match[1].result[1].id
    /\ \E t \in students :
          /\ t # match[1].result[1]
          /\ WithinTolerance(t, match[1].unknown)

----------------------------------------------------------------------------
\* The step leaves every session, every stored encoding and every other row
\* as they were, and the row `id` keeps its internal id, its encoding
\* reference and its time of creation.
UpdatesOnlyNames(id) ==
    /\ logs' = logs /\ files' = files
    /\ nextStudentId' = nextStudentId /\ nextLogId' = nextLogId
    /\ {s.id : s \in students'} = {s.id : s \in students}
    /\ Cardinality(students') = Cardinality(students)
    /\ \A s \in students :
          IF s.id # id THEN s \in students'
          ELSE \E x \in students' :
                  /\ x.id = s.id
                  /\ x.face_encoding_path = s.face_encoding_path
                  /\ x.created_at = s.created_at

----------------------------------------------------------------------------
\* C25: in every reachable state a session has status checked_out exactly
\* when its check-out time is set, and checked_in otherwise; so the SELECT
\* of get_active_checkin, which tests `check_out_time IS NULL`, returns for
\* every key the rows it would return testing `status = 'checked_in'`.
C25_StatusIffExitTime ==
    /\ \A l \in logs :
          /\ l.status \in {"checked_in", "checked_out"}
          /\ l.status = "checked_out" <=> l.check_out_time # None
    /\ \A student_id \in StudentIds, class_name \in ClassNames :
          get_active_checkin(student_id, class_name)
             = select_active({l \in logs : /\ l.student_id = student_id
                                            /\ l.class_name = class_name
                                            /\ DATE(l.check_in_time) = get_thai_date
                                            /\ l.status = "checked_in"})

\* The store holds a session that was checked out and a session that is
\* open today, and no request is in flight.
C25_Witness ==
    /\ pending = {}
    /\ \E l \in logs : l.status = "checked_out" /\ l.check_out_time # None
    /\ \E student_id \in StudentIds, class_name \in ClassNames :
          get_active_checkin(student_id, class_name) # {}

----------------------------------------------------------------------------
\* C26: in every reachable state every attendance session references an
\* enrolled row.  A scan handler matches and writes in one step, no request
\* being served between its match and its INSERT or UPDATE; the one point
\* at which a delete can be served during a scan is the wait for the
\* notifier, after the commit, and the handler resumed from that wait
\* writes no session.
C26_SessionsReferenceEnrolled ==
    /\ \A l \in logs : \E s \in students : s.id = l.student_id
    /\ \A p \in pending, outcome \in WebhookOutcomes :
          ~ ENABLED ( /\ send_attendance_log_returns(p, outcome)
                      /\ UNCHANGED notified
                      /\ (logs' # logs \/ students' # students) )

\* A row was deleted while the scan that wrote its session was waiting for
\* the notifier: the scan is still in flight, the row and the session it
\* wrote are gone, and another row is enrolled.
C26_Witness ==
    /\ students # {}
    /\ \E p \in pending :
          /\ \A s \in students : s.id # p.sid
          /\ \A l \in logs : l.id # p.log

----------------------------------------------------------------------------
\* C27: in every reachable state, whatever enrolments and deletions have
\* been served, any two different enrolled rows whose encodings load are
\* farther apart than the tolerance: no row is enrolled that the duplicate
\* test of the enrolment had to reject against another row still enrolled.
C27_EnrolledFarApart ==
    \A s, t \in students :
        ( /\ s # t
          /\ load_face_encoding(s.face_encoding_path) # None
          /\ load_face_encoding(t.face_encoding_path) # None )
        => face_distance(load_face_encoding(s.face_encoding_path)[1],
                         load_face_encoding(t.face_encoding_path)[1])
              > FACE_RECOGNITION_TOLERANCE * FACE_RECOGNITION_TOLERANCE

\* Two rows are enrolled with a stored encoding each, no scan has written a
\* session, and the latest answer is a rejection with code 400.
C27_Witness ==
    /\ last = 400 /\ nextLogId = 1
    /\ \E s, t \in students :
          /\ s # t
          /\ load_face_encoding(s.face_encoding_path) # None
          /\ load_face_encoding(t.face_encoding_path) # None

----------------------------------------------------------------------------
\* A session entered on an earlier civil day and never checked out.
StaleOpen(l) == IsOpen(l) /\ CivilDay(l.check_in_time) < Today

\* The step leaves every stale open session as it is, or removes it together
\* with the row it refers to.
KeepsStaleSessions ==
    \A l \in logs :
        StaleOpen(l) =>
            \/ l \in logs'
            \/ /\ \A x \in logs' : x.id # l.id
               /\ \A s \in students' : s.id # l.student_id

\* C28 as stated: whenever an (identity, class) has a session left open on
\* an earlier civil day, an exit request for it is rejected with NoOpenEntry
\* (code 400) and writes nothing.
C28_StaleExitRejected ==
    \A u \in Encodings : \A matched \in possible_matches(u) :
        \A img \in FaceImagesOf(u), class_name \in ClassNames :
           ( /\ matched # None
             /\ \E l \in logs : /\ StaleOpen(l)
                                /\ l.student_id = matched[1].id
                                /\ l.class_name = class_name )
           => /\ check_detail(img, class_name, "check_out", matched) = "NoOpenEntry"
              /\ ~ ENABLED ( /\ check_attendance(img, class_name, "check_out", matched)
                             /\ ~ RejectedWith(400) )

\* An exit request for a key with a stale open session and no session of
\* today open is rejected with NoOpenEntry and writes nothing.
StaleExitRejectedUnlessEnteredToday ==
    \A u \in Encodings : \A matched \in possible_matches(u) :
        \A img \in FaceImagesOf(u), class_name \in ClassNames :
           ( /\ matched # None
             /\ \E l \in logs : /\ StaleOpen(l)
                                /\ l.student_id = matched[1].id
                                /\ l.class_name = class_name
             /\ OpenOn(logs, matched[1].id, class_name, Today) = {} )
           => /\ check_detail(img, class_name, "check_out", matched) = "NoOpenEntry"
              /\ ~ ENABLED ( /\ check_attendance(img, class_name, "check_out", matched)
                             /\ ~ RejectedWith(400) )

\* C28 as amended: a session left open on an earlier civil day is never
\* changed by any step, and is removed only with the row it refers to; an
\* exit request for its (identity, class) is rejected with NoOpenEntry and
\* writes nothing unless the key has been entered again today and that
\* session is open, in which case the exit closes the session of today.
C28_StaleNeverClosed ==
    [] StaleExitRejectedUnlessEnteredToday /\ [][KeepsStaleSessions]_vars

\* The one session ever written was entered on an earlier civil day and is
\* still open; no request is in flight and the latest answer is a rejection
\* with code 400.
C28_Witness ==
    /\ pending = {} /\ last = 400 /\ nextLogId = 2
    /\ \E l \in logs : StaleOpen(l)

----------------------------------------------------------------------------
\* The step leaves every session of another identity or another class as it
\* is, and every session it adds or changes is of (sid, class_name).
ChangesOnlyKey(sid, class_name) ==
    /\ \A l \in logs :
          (l.student_id # sid \/ l.class_name # class_name) => l \in logs'
    /\ \A x \in logs' \ logs :
          x.student_id = sid /\ x.class_name = class_name

\* C29: the outcome of an enter or an exit request matched to identity i for
\* class c is a function of the open sessions of (i, c) entered today and of
\* nothing else in the store: an exit is accepted exactly when there is one,
\* an enter exactly when there is none; and the step adds or changes no
\* session of another identity or of another class.
C29_KeyIndependence ==
    \A u \in Encodings : \A matched \in possible_matches(u) :
        \A img \in FaceImagesOf(u), class_name \in ClassNames :
           matched # None =>
              LET open == OpenOn(logs, matched[1].id, class_name, Today)
              IN  /\ check_detail(img, class_name, "check_out", matched)
                        = IF open = {} THEN "NoOpenEntry" ELSE "check_out"
                  /\ check_detail(img, class_name, "check_in", matched)
                        = IF open = {} THEN "check_in" ELSE "DuplicateEntry"
                  /\ \A scan_type \in ScanTypes :
                        ~ ENABLED ( /\ check_attendance(img, class_name, scan_type, matched)
                                    /\ ~ ChangesOnlyKey(matched[1].id, class_name) )

\* One identity has, on one civil day, a session of one class that was
\* checked out and a session of the other class that is still open.
C29_Witness ==
    \E l1, l2 \in logs :
        /\ l1.student_id = l2.student_id /\ l1.class_name # l2.class_name
        /\ CivilDay(l1.check_in_time) = CivilDay(l2.check_in_time)
        /\ l1.status = "checked_out" /\ l2.status = "checked_in"

====
